---- MODULE Spec2Model ----
(***************************************************************************)
(* State-machine model of src/auto_light.py (class AutoLight): the         *)
(* schedule table built by __init__, the resolution function               *)
(* _find_active_schedule, the reactor timer callback, the deferred         *)
(* _set_brightness callbacks and the G-code command handlers.              *)
(*                                                                         *)
(* Conventions                                                             *)
(*  - Python's None is the empty sequence <<>>, a present value v is <<v>>.*)
(*  - Brightness levels are integers in thousandths (0.3 is 300), the      *)
(*    resolution of the SET_PIN VALUE={:.3f} wire format.  The levels used *)
(*    are chosen so that the integer comparison `diff > 10' agrees with    *)
(*    the float comparison `abs(a - b) > 0.01' of the source for every     *)
(*    pair that occurs.                                                    *)
(*  - Reactor callbacks (timer, deferred callback, command handler) run    *)
(*    one at a time, so every handler is one atomic action.                *)
(***************************************************************************)
EXTENDS Integers, Sequences, FiniteSets, TLC

VARIABLES
    schedules,            \* self.schedules: sorted list of schedule dicts
    enabled,              \* self.enabled: master switch
    timer,                \* self.timer: None or <<waketime>> of the registered timer
    last_brightness,      \* self.last_brightness
    current_schedule_id,  \* self.current_schedule_id
    gcode,                \* self.gcode is not None (commands registered)
    phase,                \* host lifecycle: "loaded", "ready", "shutdown"
    pending,              \* reactor callbacks registered by ticks, not yet run
    now,                  \* reactor monotonic time, in units of 300 s
    script,               \* SET_PIN commands the last handler ran, with their call site
    last_command,         \* VALUE of the most recent SET_PIN any handler ran, or None
    registered            \* number of timers registered with the reactor

vars == <<schedules, enabled, timer, last_brightness, current_schedule_id,
          gcode, phase, pending, now, script, last_command, registered>>

None == <<>>
Some(v) == <<v>>

(***************************************************************************)
(* Bounds of the model                                                     *)
(***************************************************************************)
MaxPending == 1      \* deferred callbacks waiting in the reactor
MaxTime == 2         \* reactor time runs from 0 to MaxTime

(***************************************************************************)
(* Program constants                                                       *)
(***************************************************************************)
NumSlots == 5        \* schedule_1 .. schedule_5
CheckInterval == 2   \* check_interval, default 600.0 s, in units of 300 s
Tolerance == 10      \* 0.01 in thousandths
NOW == 0             \* reactor.NOW
NEVER == 9999        \* reactor.NEVER
MinId == 1           \* get_int('ID', minval=1, ...)
MaxId == 5           \* get_int('ID', ..., maxval=5)

(***************************************************************************)
(* Configuration: the schedule_N options, as the tokens that               *)
(* split('=') / split('-') / split(':') / int() / float() yield for a      *)
(* well-formed "HH:MM-HH:MM=level" string.  A malformed string raises in   *)
(* the parser and the load fails, like an out-of-range brightness does.    *)
(***************************************************************************)
Slots == 1..NumSlots

Opt(sh, sm, eh, em, br) ==
    [start_hour |-> sh, start_min |-> sm, end_hour |-> eh, end_min |-> em,
     brightness |-> br]

Day == Some(Opt(7, 0, 14, 0, 1000))         \* "07:00-14:00=1.0"  same-day window
Night == Some(Opt(20, 0, 8, 0, 300))        \* "20:00-08:00=0.3"  crosses midnight
Morning == Some(Opt(7, 0, 9, 0, 600))       \* "07:00-09:00=0.6"  starts when Day starts
Wild == Some(Opt(25, 0, 26, 99, 500))       \* "25:00-26:99=0.5"  hour, minute out of range
TooBright == Some(Opt(7, 0, 14, 0, 1500))   \* "07:00-14:00=1.5"  brightness out of range

\* config.get(f'schedule_{i}', None) for i in 1..5, one tuple per printer.cfg:
\* a single window with gaps, two windows defined out of start order, ids
\* that are not 1..N, three windows with a tie and an overlap, a window
\* with out-of-range times, and two files the loader rejects
Configs ==
    { <<Day, None, None, None, None>>,
      <<Night, Day, None, None, None>>,
      <<None, Day, None, Night, None>>,
      <<Day, Morning, Night, None, None>>,
      <<Wild, None, None, None, None>>,
      <<TooBright, Night, None, None, None>>,
      <<None, None, None, None, None>> }

\* the body of the try block for one option (lines 24-43)
BrightnessOk(br) == 0 <= br /\ br <= 1000

ParseOk(w) == BrightnessOk(w.brightness)

\* the dict of lines 34-43; its 'name' is f'Schedule {id}', a function of the
\* id that only messages read, and is not kept
MakeSchedule(i, w) ==
    [id |-> i,
     start_hour |-> w.start_hour, start_min |-> w.start_min,
     end_hour |-> w.end_hour, end_min |-> w.end_min,
     brightness |-> w.brightness,
     enabled |-> TRUE]

GetMinutesFromMidnight(hour, minute) == hour * 60 + minute

SortKey(s) == GetMinutesFromMidnight(s.start_hour, s.start_min)

\* as InsertSorted, for a sort that puts an element before its equals
RECURSIVE InsertSorted_Unstable(_, _)
InsertSorted_Unstable(s, sorted) ==
    IF sorted = <<>> THEN <<s>>
    ELSE IF SortKey(Head(sorted)) < SortKey(s)
         THEN <<Head(sorted)>> \o InsertSorted_Unstable(s, Tail(sorted))
         ELSE <<s>> \o sorted

\* list.sort(key=...) is stable: an element goes after every element whose
\* key is less than or equal to its own
RECURSIVE InsertSorted(_, _)
InsertSorted(s, sorted) ==
    IF sorted = <<>> THEN <<s>>
    ELSE IF SortKey(Head(sorted)) <= SortKey(s)
         THEN <<Head(sorted)>> \o InsertSorted(s, Tail(sorted))
         ELSE <<s>> \o sorted

RECURSIVE SortSchedules(_)
SortSchedules(list) ==
    IF list = <<>> THEN <<>>
    ELSE InsertSorted(list[Len(list)], SortSchedules(SubSeq(list, 1, Len(list) - 1)))

\* as ParsedUpTo, numbering the schedules 1, 2, ... as they are appended
RECURSIVE ParsedUpTo_Renumbered(_, _)
ParsedUpTo_Renumbered(c, i) ==
    IF i = 0 THEN <<>>
    ELSE IF c[i] = None THEN ParsedUpTo_Renumbered(c, i - 1)
         ELSE Append(ParsedUpTo_Renumbered(c, i - 1),
                     MakeSchedule(Len(ParsedUpTo_Renumbered(c, i - 1)) + 1, c[i][1]))

\* the for loop of __init__: schedules appended in option order
RECURSIVE ParsedUpTo(_, _)
ParsedUpTo(c, i) ==
    IF i = 0 THEN <<>>
    ELSE IF c[i] = None THEN ParsedUpTo(c, i - 1)
         ELSE Append(ParsedUpTo(c, i - 1), MakeSchedule(i, c[i][1]))

\* __init__ raises config.error: a bad option, or no schedule at all
LoadOk(c) ==
    /\ \A i \in Slots : c[i] # None => ParseOk(c[i][1])
    /\ ParsedUpTo(c, NumSlots) # <<>>

LoadSchedules(c) == SortSchedules(ParsedUpTo(c, NumSlots))

(***************************************************************************)
(* Schedule resolution                                                     *)
(***************************************************************************)
GetEnabledSchedules(scheds) == SelectSeq(scheds, LAMBDA s : s.enabled)

\* the table after _find_active_schedule ran: schedules[0] is re-enabled
\* when no schedule is enabled
SelfHeal(scheds) ==
    IF GetEnabledSchedules(scheds) = <<>>
    THEN [scheds EXCEPT ![1].enabled = TRUE]
    ELSE scheds

\* as Candidates, without the filter on s['enabled']
Candidates_All(scheds) == scheds

\* enabled_schedules as the for loop sees it
Candidates(scheds) ==
    IF GetEnabledSchedules(scheds) = <<>>
    THEN <<SelfHeal(scheds)[1]>>
    ELSE GetEnabledSchedules(scheds)

\* as InRange, with the end of the range included
InRange_InclusiveEnd(s, current_minutes) ==
    LET start_minutes == GetMinutesFromMidnight(s.start_hour, s.start_min)
        end_minutes == GetMinutesFromMidnight(s.end_hour, s.end_min)
    IN IF start_minutes > end_minutes
       THEN current_minutes >= start_minutes \/ current_minutes <= end_minutes
       ELSE start_minutes <= current_minutes /\ current_minutes <= end_minutes

\* the two range tests of the loop body
InRange(s, current_minutes) ==
    LET start_minutes == GetMinutesFromMidnight(s.start_hour, s.start_min)
        end_minutes == GetMinutesFromMidnight(s.end_hour, s.end_min)
    IN IF start_minutes > end_minutes
       THEN current_minutes >= start_minutes \/ current_minutes < end_minutes
       ELSE start_minutes <= current_minutes /\ current_minutes < end_minutes

\* index of the first candidate the loop returns, 0 when the loop falls through
RECURSIVE FirstMatch(_, _, _)
FirstMatch(cands, k, current_minutes) ==
    IF k > Len(cands) THEN 0
    ELSE IF InRange(cands[k], current_minutes) THEN k
         ELSE FirstMatch(cands, k + 1, current_minutes)

\* as FindActiveSchedule, without the default of line 142
FindActiveSchedule_NoFallback(scheds, current_hour, current_min) ==
    LET current_minutes == GetMinutesFromMidnight(current_hour, current_min)
        cands == Candidates(scheds)
        k == FirstMatch(cands, 1, current_minutes)
    IN IF k # 0 THEN Some(cands[k]) ELSE None

\* the value _find_active_schedule returns: None or Some(schedule)
FindActiveSchedule(scheds, current_hour, current_min) ==
    LET current_minutes == GetMinutesFromMidnight(current_hour, current_min)
        cands == Candidates(scheds)
        k == FirstMatch(cands, 1, current_minutes)
    IN IF k # 0 THEN Some(cands[k])
       ELSE IF cands # <<>> THEN Some(cands[1]) ELSE None

\* the 'active_schedule_id' entry of the dict get_status returns
StatusActiveId(scheds, t) ==
    LET active == FindActiveSchedule(scheds, t[1], t[2])
    IN IF active = None THEN None ELSE Some(active[1].id)

(***************************************************************************)
(* Environment inputs                                                      *)
(***************************************************************************)
\* datetime.datetime.now(): the wall-clock (hour, minute) a handler reads.
\* One time before the day schedules start and inside the night schedule,
\* the start of the day schedules, a time no schedule contains, and a time
\* of the night schedule before midnight.
ClockTimes == { <<6, 59>>, <<7, 0>>, <<14, 0>>, <<23, 30>> }

\* levels the output pin may report: off, and a level within the tolerance
\* of the night schedule's 0.3
PinLevels == {0, 301}

\* what reading 'output_pin <pin>' yields (lines 193-207): the attribute
\* last_value or value holding a number or None, no such attribute, a failed
\* lookup, or a value abs() cannot subtract from
ReadOutcomes ==
    [kind : {"last_value", "value"}, val : {None} \cup {Some(v) : v \in PinLevels}]
    \cup [kind : {"noattr", "error", "bad"}, val : {None}]

\* ID parameters an operator may send, inside and outside minval..maxval
CmdIds == (MinId - 1)..(MaxId + 1)

Abs(x) == IF x < 0 THEN -x ELSE x

(***************************************************************************)
(* Initial state: the object __init__ returns                              *)
(***************************************************************************)
Init ==
    /\ \E c \in Configs :
          /\ LoadOk(c)
          /\ schedules = LoadSchedules(c)
    /\ enabled \in BOOLEAN          \* config.getboolean('enabled', True)
    /\ timer = None
    /\ last_brightness = None
    /\ current_schedule_id = None
    /\ gcode = FALSE
    /\ phase = "loaded"
    /\ pending = <<>>
    /\ now = 0
    /\ script = <<>>
    /\ last_command = None
    /\ registered = 0

(***************************************************************************)
(* Timer management                                                        *)
(***************************************************************************)
\* start_auto_check: the value of self.timer afterwards
StartAutoCheck(tm) == IF tm # None THEN tm ELSE Some(NOW)

\* as TimersAfterStart, without the test of line 146
TimersAfterStart_NoGuard(tm, n) == n + 1

\* start_auto_check: the number of timers registered with the reactor
\* afterwards
TimersAfterStart(tm, n) == IF tm # None THEN n ELSE n + 1

\* stop_auto_check: the number of timers registered afterwards
TimersAfterStop(tm, n) == IF tm # None THEN n - 1 ELSE n

\* as StopAutoCheck, leaving the timer registered
StopAutoCheck_KeepsTimer(tm) == tm

\* stop_auto_check: the value of self.timer afterwards
StopAutoCheck(tm) == None

\* the reactor runs the timer callback: registered, and its waketime reached
TimerDue == timer # None /\ timer[1] # NEVER /\ timer[1] <= now

(***************************************************************************)
(* Host lifecycle events                                                   *)
(***************************************************************************)
\* klippy:ready.  ok = FALSE: lookup_object('gcode') raises, the except
\* clause logs it, no command is registered and the loop is not started.
HandleReadyWith(ok) ==
    /\ phase = "loaded"
    /\ phase' = "ready"
    /\ gcode' = ok
    /\ timer' = IF ok /\ enabled THEN StartAutoCheck(timer) ELSE timer
    /\ script' = <<>>
    /\ last_command' = last_command
    /\ registered' = IF ok /\ enabled THEN TimersAfterStart(timer, registered)
                                     ELSE registered
    /\ UNCHANGED <<schedules, enabled, last_brightness, current_schedule_id,
                   pending, now>>

HandleReady == \E ok \in BOOLEAN : HandleReadyWith(ok)

\* klippy:shutdown
HandleShutdown ==
    /\ phase \in {"loaded", "ready"}
    /\ phase' = "shutdown"
    /\ timer' = StopAutoCheck(timer)
    /\ script' = <<>>
    /\ last_command' = last_command
    /\ registered' = TimersAfterStop(timer, registered)
    /\ UNCHANGED <<schedules, enabled, last_brightness, current_schedule_id,
                   gcode, pending, now>>

\* the reactor's clock advances
AdvanceTime ==
    /\ now < MaxTime
    /\ now' = now + 1
    /\ UNCHANGED <<schedules, enabled, timer, last_brightness,
                   current_schedule_id, gcode, phase, pending, script,
                   last_command, registered>>

(***************************************************************************)
(* The reconciliation tick: _timer_callback                                *)
(***************************************************************************)
\* current_pin_value before the None test (lines 192-207)
ReadPin(rd, lb) == IF rd.kind \in {"last_value", "value"} THEN rd.val ELSE lb

\* current_pin_value the comparison uses (lines 210-212)
ObservedLevel(rd, lb) ==
    LET v == ReadPin(rd, lb) IN IF v = None THEN 0 ELSE v[1]

\* as ChangeNeeded, with any difference counting as a change
ChangeNeeded_NoTolerance(target, current) == Abs(target - current) > 0

\* brightness_diff > 0.01 (lines 217-219)
ChangeNeeded(target, current) == Abs(target - current) > Tolerance

\* as NextTime, returning the interval instead of a time
NextTime_IntervalOnly(eventtime) == CheckInterval

\* the value the callback returns when self.enabled (line 238)
NextTime(eventtime) == eventtime + CheckInterval

\* the deferred call the lambda of lines 222-225 makes
Request(s) == [brightness |-> s.brightness, id |-> s.id]

\* what the body of the try block decides for wall-clock time t and pin
\* outcome rd: None, or the request it registers.  A "bad" pin value makes
\* abs() raise, caught at line 234.
TickDecision(scheds, lb, t, rd) ==
    LET active == FindActiveSchedule(scheds, t[1], t[2])
    IN IF /\ active # None
          /\ rd.kind # "bad"
          /\ ChangeNeeded(active[1].brightness, ObservedLevel(rd, lb))
       THEN Some(Request(active[1]))
       ELSE None

\* as TickAt, recording the resolved schedule's id in every tick
TickAt_AlwaysRecords(t, rd) ==
    /\ TimerDue
    /\ enabled
    /\ script' = <<>>
    /\ last_command' = last_command
    /\ registered' = registered
    /\ UNCHANGED <<enabled, gcode, phase, now>>
    /\ timer' = Some(NextTime(now))
    /\ schedules' = SelfHeal(schedules)
    /\ current_schedule_id' = StatusActiveId(schedules, t)
    /\ \E d \in {TickDecision(schedules, last_brightness, t, rd)} :
          IF d = None
          THEN UNCHANGED <<pending, last_brightness>>
          ELSE /\ Len(pending) < MaxPending
               /\ pending' = Append(pending, d[1])
               /\ last_brightness' = Some(d[1].brightness)

\* the timer callback, reading wall-clock time t and pin outcome rd; the
\* reactor passes its current time as eventtime
TickAt(t, rd) ==
    /\ TimerDue
    /\ script' = <<>>
    /\ last_command' = last_command
    /\ registered' = registered
    /\ UNCHANGED <<enabled, gcode, phase, now>>
    /\ IF ~enabled
       THEN /\ timer' = Some(NEVER)
            /\ UNCHANGED <<schedules, last_brightness, current_schedule_id, pending>>
       ELSE /\ timer' = Some(NextTime(now))
            /\ schedules' = SelfHeal(schedules)
            /\ \E d \in {TickDecision(schedules, last_brightness, t, rd)} :
                  IF d = None
                  THEN UNCHANGED <<pending, last_brightness, current_schedule_id>>
                  ELSE /\ Len(pending) < MaxPending
                       /\ pending' = Append(pending, d[1])
                       /\ last_brightness' = Some(d[1].brightness)
                       /\ current_schedule_id' = Some(d[1].id)

Tick == \E t \in ClockTimes, rd \in ReadOutcomes : TickAt(t, rd)

(***************************************************************************)
(* Actuation: _set_brightness                                              *)
(***************************************************************************)
\* the SET_PIN commands _set_brightness hands to run_script_from_command:
\* none when self.gcode is None, else one with VALUE=brightness.  origin is
\* the call site, "loop" (the lambda of line 223) or "manual" (line 269).
SetBrightness(g, brightness, origin) ==
    IF ~g THEN <<>> ELSE <<[value |-> brightness, origin |-> origin]>>

\* the VALUE of the most recent SET_PIN after a handler that ran scr
LastCommand(prev, scr) == IF scr = <<>> THEN prev ELSE Some(scr[Len(scr)].value)

\* a deferred callback registered by a tick runs.  ok = FALSE: the script or
\* the response raises, caught at line 257; the object is left the same
\* either way.
RunCallbackWith(ok) ==
    /\ pending # <<>>
    /\ pending' = Tail(pending)
    /\ script' = SetBrightness(gcode, Head(pending).brightness, "loop")
    /\ last_command' = LastCommand(last_command, script')
    /\ registered' = registered
    /\ UNCHANGED <<schedules, enabled, timer, last_brightness,
                   current_schedule_id, gcode, phase, now>>

RunCallback == \E ok \in BOOLEAN : RunCallbackWith(ok)

(***************************************************************************)
(* G-code commands (registered by _handle_ready, accepted while ready)     *)
(***************************************************************************)
CommandsAccepted == phase = "ready" /\ gcode

\* as ManualCheckAt, skipping the command when the level recorded last is
\* within the tolerance of the target
ManualCheckAt_Debounced(t, ok) ==
    /\ CommandsAccepted
    /\ LET active == FindActiveSchedule(schedules, t[1], t[2])
           change == /\ active # None
                     /\ ChangeNeeded(active[1].brightness,
                                     IF last_brightness = None THEN 0
                                     ELSE last_brightness[1])
       IN /\ schedules' = SelfHeal(schedules)
          /\ last_brightness' = IF change THEN Some(active[1].brightness)
                                         ELSE last_brightness
          /\ current_schedule_id' = IF change THEN Some(active[1].id)
                                             ELSE current_schedule_id
          /\ script' = IF change
                       THEN SetBrightness(gcode, active[1].brightness, "manual")
                       ELSE <<>>
          /\ last_command' = LastCommand(last_command, script')
          /\ registered' = registered
    /\ UNCHANGED <<enabled, timer, gcode, phase, pending, now>>

\* SET_AUTO_LIGHT: _manual_check reading wall-clock time t.  ok = FALSE: the
\* script raises inside _set_brightness, which catches it.
ManualCheckAt(t, ok) ==
    /\ CommandsAccepted
    /\ LET active == FindActiveSchedule(schedules, t[1], t[2])
       IN /\ schedules' = SelfHeal(schedules)
          /\ last_brightness' = IF active # None THEN Some(active[1].brightness)
                                                 ELSE last_brightness
          /\ current_schedule_id' = IF active # None THEN Some(active[1].id)
                                                     ELSE current_schedule_id
          /\ script' = IF active # None
                       THEN SetBrightness(gcode, active[1].brightness, "manual")
                       ELSE <<>>
          /\ last_command' = LastCommand(last_command, script')
          /\ registered' = registered
    /\ UNCHANGED <<enabled, timer, gcode, phase, pending, now>>

ManualCheck == \E t \in ClockTimes, ok \in BOOLEAN : ManualCheckAt(t, ok)

\* AUTO_LIGHT_ENABLE
AutoLightEnable ==
    /\ CommandsAccepted
    /\ enabled' = TRUE
    /\ timer' = StartAutoCheck(timer)
    /\ script' = <<>>
    /\ last_command' = last_command
    /\ registered' = TimersAfterStart(timer, registered)
    /\ UNCHANGED <<schedules, last_brightness, current_schedule_id, gcode,
                   phase, pending, now>>

\* AUTO_LIGHT_DISABLE
AutoLightDisable ==
    /\ CommandsAccepted
    /\ enabled' = FALSE
    /\ timer' = StopAutoCheck(timer)
    /\ script' = <<>>
    /\ last_command' = last_command
    /\ registered' = TimersAfterStop(timer, registered)
    /\ UNCHANGED <<schedules, last_brightness, current_schedule_id, gcode,
                   phase, pending, now>>

\* gcmd.get_int('ID', minval=1, maxval=5) returns instead of raising
IdAccepted(id) == MinId <= id /\ id <= MaxId

\* position of the first schedule with this id, 0 if the loop finds none
RECURSIVE IndexOfId(_, _, _)
IndexOfId(scheds, k, id) ==
    IF k > Len(scheds) THEN 0
    ELSE IF scheds[k].id = id THEN k ELSE IndexOfId(scheds, k + 1, id)

\* sum(1 for s in self.schedules if s['enabled'])
EnabledCount(scheds) == Len(GetEnabledSchedules(scheds))

\* the response of AUTO_LIGHT_SCHEDULE_ENABLE
ScheduleEnableReply(scheds, id) ==
    IF ~IdAccepted(id) THEN "error"
    ELSE IF IndexOfId(scheds, 1, id) # 0 THEN "enabled" ELSE "not found"

\* the table after AUTO_LIGHT_SCHEDULE_ENABLE
ScheduleEnableTable(scheds, id) ==
    IF ScheduleEnableReply(scheds, id) = "enabled"
    THEN [scheds EXCEPT ![IndexOfId(scheds, 1, id)].enabled = TRUE]
    ELSE scheds

\* as ScheduleDisableReply, without the enabled_count test of line 333
ScheduleDisableReply_NoFloor(scheds, id) ==
    IF ~IdAccepted(id) THEN "error"
    ELSE IF IndexOfId(scheds, 1, id) = 0 THEN "not found"
    ELSE IF ~scheds[IndexOfId(scheds, 1, id)].enabled THEN "already disabled"
    ELSE "disabled"

\* the response of AUTO_LIGHT_SCHEDULE_DISABLE
ScheduleDisableReply(scheds, id) ==
    IF ~IdAccepted(id) THEN "error"
    ELSE IF EnabledCount(scheds) <= 1 THEN "cannot disable"
    ELSE IF IndexOfId(scheds, 1, id) = 0 THEN "not found"
    ELSE IF ~scheds[IndexOfId(scheds, 1, id)].enabled THEN "already disabled"
    ELSE "disabled"

\* as ScheduleDisableTable, taking the id for a position in the list
ScheduleDisableTable_ByPosition(scheds, id) ==
    IF ScheduleDisableReply(scheds, id) = "disabled"
    THEN [scheds EXCEPT ![IF id <= Len(scheds) THEN id ELSE 1].enabled = FALSE]
    ELSE scheds

\* the table after AUTO_LIGHT_SCHEDULE_DISABLE
ScheduleDisableTable(scheds, id) ==
    IF ScheduleDisableReply(scheds, id) = "disabled"
    THEN [scheds EXCEPT ![IndexOfId(scheds, 1, id)].enabled = FALSE]
    ELSE scheds

\* AUTO_LIGHT_SCHEDULE_ENABLE ID=id
ScheduleEnableId(id) ==
    /\ CommandsAccepted
    /\ schedules' = ScheduleEnableTable(schedules, id)
    /\ script' = <<>>
    /\ last_command' = last_command
    /\ registered' = registered
    /\ UNCHANGED <<enabled, timer, last_brightness, current_schedule_id,
                   gcode, phase, pending, now>>

ScheduleEnable == \E id \in CmdIds : ScheduleEnableId(id)

\* AUTO_LIGHT_SCHEDULE_DISABLE ID=id
ScheduleDisableId(id) ==
    /\ CommandsAccepted
    /\ schedules' = ScheduleDisableTable(schedules, id)
    /\ script' = <<>>
    /\ last_command' = last_command
    /\ registered' = registered
    /\ UNCHANGED <<enabled, timer, last_brightness, current_schedule_id,
                   gcode, phase, pending, now>>

ScheduleDisable == \E id \in CmdIds : ScheduleDisableId(id)

\* AUTO_LIGHT_LIST_SCHEDULES
ListSchedules ==
    /\ CommandsAccepted
    /\ script' = <<>>
    /\ last_command' = last_command
    /\ registered' = registered
    /\ UNCHANGED <<schedules, enabled, timer, last_brightness,
                   current_schedule_id, gcode, phase, pending, now>>

\* as GetStatusAt, recording the schedule it resolved
GetStatusAt_Records(t) ==
    /\ schedules' = SelfHeal(schedules)
    /\ current_schedule_id' = StatusActiveId(schedules, t)
    /\ script' = <<>>
    /\ last_command' = last_command
    /\ registered' = registered
    /\ UNCHANGED <<enabled, timer, last_brightness, gcode, phase, pending, now>>

\* get_status, polled by the host's API server, reading wall-clock time t
GetStatusAt(t) ==
    /\ schedules' = SelfHeal(schedules)
    /\ script' = <<>>
    /\ last_command' = last_command
    /\ registered' = registered
    /\ UNCHANGED <<enabled, timer, last_brightness, current_schedule_id,
                   gcode, phase, pending, now>>

GetStatus == \E t \in ClockTimes : GetStatusAt(t)

Next ==
    \/ HandleReady
    \/ HandleShutdown
    \/ AdvanceTime
    \/ Tick
    \/ RunCallback
    \/ ManualCheck
    \/ AutoLightEnable
    \/ AutoLightDisable
    \/ ScheduleEnable
    \/ ScheduleDisable
    \/ ListSchedules
    \/ GetStatus

Spec == Init /\ [][Next]_vars

\* the schedule table on its own: the commands that change it and the
\* handlers that resolve against it, without the timer loop
NextTable ==
    \/ HandleReady
    \/ ScheduleEnable
    \/ ScheduleDisable
    \/ ManualCheck
    \/ GetStatus

SpecTable == Init /\ [][NextTable]_vars

\* _find_active_schedule as a function of the table: the tables of the
\* loadable configurations with every combination of enabled flags.  The
\* combination with no flag set is the input the branch of lines 122-125
\* is written for; no sequence of commands produces it.
AnyFlags(table) ==
    { [k \in DOMAIN table |-> [table[k] EXCEPT !.enabled = (k \in F)]] :
        F \in SUBSET DOMAIN table }

InitResolve ==
    /\ \E c \in Configs :
          /\ LoadOk(c)
          /\ schedules \in AnyFlags(LoadSchedules(c))
    /\ enabled \in BOOLEAN
    /\ timer = None
    /\ last_brightness = None
    /\ current_schedule_id = None
    /\ gcode = FALSE
    /\ phase = "loaded"
    /\ pending = <<>>
    /\ now = 0
    /\ script = <<>>
    /\ last_command = None
    /\ registered = 0

\* the handlers that resolve without the timer loop
NextResolve ==
    \/ HandleReady
    \/ ManualCheck
    \/ GetStatus

SpecResolve == InitResolve /\ [][NextResolve]_vars

(***************************************************************************)
(* Times of day                                                            *)
(***************************************************************************)
Hours == 0..23
Minutes == 0..59

DayMinutes(h, m) == GetMinutesFromMidnight(h, m)

EnabledIndexes == {k \in DOMAIN schedules : schedules[k].enabled}

\* C1: once the configuration has loaded, resolution returns a schedule
\* (never None) for every hour and minute of the day, whatever ticks, manual
\* checks, status queries and schedule enable/disable commands have run.
C1_ResolveTotal ==
    \A h \in Hours, m \in Minutes : FindActiveSchedule(schedules, h, m) # None

\* a schedule has been disabled, a resolution has run and set the last
\* brightness, and 15:00 lies in no enabled schedule's range: it is resolved
\* by the fallback
C1_Witness ==
    /\ EnabledIndexes # DOMAIN schedules
    /\ last_brightness # None
    /\ \A k \in EnabledIndexes : ~InRange(schedules[k], DayMinutes(15, 0))
    /\ FindActiveSchedule(schedules, 15, 0) # None

\* C2: every schedule is enabled when the configuration has loaded, and in
\* every reachable state at least one schedule is enabled.
C2_FloorOfOne ==
    /\ phase = "loaded" => EnabledIndexes = DOMAIN schedules
    /\ EnabledIndexes # {}

\* two of three schedules have been disabled and the loop has ticked
C2_Witness ==
    /\ Len(schedules) = 3
    /\ Cardinality(EnabledIndexes) = 1
    /\ timer # None /\ timer[1] >= CheckInterval

\* the positions of the schedules with this id
WithId(id) == {k \in DOMAIN schedules : schedules[k].id = id}

\* C3: a disable request for an existing schedule is refused and changes no
\* enabled flag when at most one schedule is enabled; when at least two are
\* enabled and the target is enabled, it clears the target's flag and changes
\* nothing else in the table.
C3_DisableRule ==
    [][\A id \in CmdIds :
         (ScheduleDisableId(id) /\ WithId(id) # {}) =>
            /\ Cardinality(EnabledIndexes) <= 1 =>
                  /\ schedules' = schedules
                  /\ ScheduleDisableReply(schedules, id) = "cannot disable"
            /\ (Cardinality(EnabledIndexes) >= 2 /\ WithId(id) \subseteq EnabledIndexes) =>
                  /\ ScheduleDisableReply(schedules, id) = "disabled"
                  /\ DOMAIN schedules' = DOMAIN schedules
                  /\ \A k \in DOMAIN schedules :
                        schedules'[k] = IF k \in WithId(id)
                                        THEN [schedules[k] EXCEPT !.enabled = FALSE]
                                        ELSE schedules[k]]_vars

\* one schedule of three has been disabled, the other two are as loaded
C3_Witness ==
    /\ Len(schedules) = 3
    /\ Cardinality(EnabledIndexes) = 2
    /\ CommandsAccepted

\* C4: while a schedule is disabled, resolution at no time of day returns
\* it, and its enabled flag becomes true again only by a schedule enable
\* command, never by a tick, a manual check or a status query.
C4_DisabledNotSelected ==
    /\ [](\A k \in DOMAIN schedules \ EnabledIndexes :
            \A h \in Hours, m \in Minutes :
               LET active == FindActiveSchedule(schedules, h, m)
               IN active # None /\ active[1].id # schedules[k].id)
    /\ [][\A k \in DOMAIN schedules \ EnabledIndexes :
            schedules'[k].enabled => \E id \in CmdIds : ScheduleEnableId(id)]_vars

\* a disabled schedule whose range contains 07:00, after ticks have run and
\* resolved another schedule
C4_Witness ==
    /\ \E k \in DOMAIN schedules \ EnabledIndexes :
          /\ InRange(schedules[k], DayMinutes(7, 0))
          /\ current_schedule_id # None
          /\ current_schedule_id # Some(schedules[k].id)
    /\ timer # None /\ timer[1] >= CheckInterval

(***************************************************************************)
(* Resolution as the specification words it                                *)
(***************************************************************************)
StartMinutes(s) == s.start_hour * 60 + s.start_min
EndMinutes(s) == s.end_hour * 60 + s.end_min

\* a schedule's range contains a minute of the day
Contains(s, nowMinutes) ==
    IF StartMinutes(s) <= EndMinutes(s)
    THEN StartMinutes(s) <= nowMinutes /\ nowMinutes < EndMinutes(s)
    ELSE nowMinutes >= StartMinutes(s) \/ nowMinutes < EndMinutes(s)

Least(S) == CHOOSE x \in S : \A y \in S : x <= y

\* ascending start minutes, ties in definition order
TableOrder ==
    \A i, j \in DOMAIN schedules :
       i < j => \/ StartMinutes(schedules[i]) < StartMinutes(schedules[j])
                \/ /\ StartMinutes(schedules[i]) = StartMinutes(schedules[j])
                   /\ schedules[i].id < schedules[j].id

\* the position the rule selects: the first enabled schedule containing the
\* minute, else the first enabled schedule
Expected(nowMinutes) ==
    LET hits == {k \in EnabledIndexes : Contains(schedules[k], nowMinutes)}
    IN IF hits # {} THEN Least(hits) ELSE Least(EnabledIndexes)

\* C5: resolution is a function of the time and the table alone: the table
\* is in ascending order of start minutes with ties in definition order, the
\* result for every hour and minute is the first enabled schedule whose range
\* contains the minute, else the first enabled schedule, and resolving leaves
\* the table as it was, so that a repeated call returns the same schedule.
C5_ResolveRule ==
    /\ TableOrder
    /\ SelfHeal(schedules) = schedules
    /\ \A h \in Hours, m \in Minutes :
          FindActiveSchedule(schedules, h, m) = Some(schedules[Expected(h * 60 + m)])

\* two schedules start at the same minute, the first of them is disabled and
\* a manual check has resolved the second
C5_Witness ==
    /\ Len(schedules) >= 2
    /\ StartMinutes(schedules[1]) = StartMinutes(schedules[2])
    /\ ~schedules[1].enabled
    /\ current_schedule_id = Some(schedules[2].id)
    /\ script # <<>>

\* start and end are times of the day
TimesOfDay(s) ==
    /\ s.start_hour \in Hours /\ s.start_min \in Minutes
    /\ s.end_hour \in Hours /\ s.end_min \in Minutes

MinuteBefore(nowMinutes) == (nowMinutes + 1439) % 1440

ActiveIdAt(nowMinutes) ==
    LET active == FindActiveSchedule(schedules, nowMinutes \div 60, nowMinutes % 60)
    IN IF active = None THEN 0 ELSE active[1].id

OthersCover(k, nowMinutes) ==
    \E j \in EnabledIndexes \ {k} : Contains(schedules[j], nowMinutes)

\* C6 as stated: for an enabled schedule with a same-day range, the minute
\* before its start and its end resolve to another schedule; for one that
\* crosses midnight they do when no other schedule covers them; every minute
\* inside the range resolves to the schedule.
C6_BoundariesExcludeWindow ==
    \A k \in EnabledIndexes :
       LET W == schedules[k]
       IN (TimesOfDay(W) /\ StartMinutes(W) # EndMinutes(W)) =>
            /\ StartMinutes(W) < EndMinutes(W) =>
                  /\ ActiveIdAt(MinuteBefore(StartMinutes(W))) # W.id
                  /\ ActiveIdAt(EndMinutes(W)) # W.id
            /\ StartMinutes(W) > EndMinutes(W) =>
                  /\ ~OthersCover(k, EndMinutes(W)) => ActiveIdAt(EndMinutes(W)) # W.id
                  /\ ~OthersCover(k, MinuteBefore(StartMinutes(W))) =>
                        ActiveIdAt(MinuteBefore(StartMinutes(W))) # W.id
            /\ \A h \in Hours, m \in Minutes :
                  Contains(W, h * 60 + m) => ActiveIdAt(h * 60 + m) = W.id

\* C6 as amended: a schedule's range includes its start and excludes its end
\* and the minute before its start; a minute outside the range resolves to
\* the schedule only as the default, when no enabled schedule contains the
\* minute and the schedule is the first enabled one; a minute inside the
\* range resolves to the schedule unless an enabled schedule earlier in the
\* table contains it too.
C6_BoundariesAndDefault ==
    \A k \in EnabledIndexes :
       LET W == schedules[k]
       IN /\ (TimesOfDay(W) /\ StartMinutes(W) # EndMinutes(W)) =>
                /\ InRange(W, StartMinutes(W))
                /\ ~InRange(W, EndMinutes(W))
                /\ ~InRange(W, MinuteBefore(StartMinutes(W)))
          /\ \A h \in Hours, m \in Minutes :
                LET t == h * 60 + m
                IN /\ (~Contains(W, t) /\ ActiveIdAt(t) = W.id) =>
                         /\ \A j \in EnabledIndexes : ~Contains(schedules[j], t)
                         /\ k = Least(EnabledIndexes)
                   /\ (Contains(W, t) /\ ActiveIdAt(t) # W.id) =>
                         \E j \in EnabledIndexes : j < k /\ Contains(schedules[j], t)

\* the only schedule is 07:00-14:00, a manual check has resolved it, and
\* 06:59 and 14:00 resolve to it by default
C6_Witness ==
    /\ Len(schedules) = 1
    /\ StartMinutes(schedules[1]) = 420 /\ EndMinutes(schedules[1]) = 840
    /\ current_schedule_id = Some(schedules[1].id)
    /\ ActiveIdAt(419) = schedules[1].id
    /\ ActiveIdAt(840) = schedules[1].id

(***************************************************************************)
(* The loop                                                                *)
(***************************************************************************)
\* C7: a tick that runs with the master switch on registers a deferred
\* actuation exactly when the resolved schedule's level differs from the
\* observed level by more than the tolerance, and then one request carrying
\* that schedule's level; otherwise it registers none and leaves
\* last_brightness and current_schedule_id as they were.  No tick registers
\* more than one.
C7_Debounce ==
    [][(enabled /\ TimerDue) =>
       \A t \in ClockTimes, rd \in ReadOutcomes :
         TickAt(t, rd) =>
            \E active \in {FindActiveSchedule(schedules, t[1], t[2])} :
               /\ Len(pending') <= Len(pending) + 1
               /\ active # None
               /\ IF /\ rd.kind # "bad"
                     /\ Abs(active[1].brightness
                            - ObservedLevel(rd, last_brightness)) > Tolerance
                  THEN pending' = Append(pending, [brightness |-> active[1].brightness,
                                                   id |-> active[1].id])
                  ELSE /\ pending' = pending
                       /\ last_brightness' = last_brightness
                       /\ current_schedule_id' = current_schedule_id]_vars

\* a tick has just run at the current reactor time and registered one
\* request for the schedule it resolved
C7_Witness ==
    /\ enabled
    /\ timer = Some(now + CheckInterval)
    /\ Len(pending) = 1
    /\ last_brightness = Some(pending[1].brightness)
    /\ current_schedule_id = Some(pending[1].id)

\* C8: every manual check runs one SET_PIN command carrying the level of the
\* schedule resolved for the time it read, and leaves last_brightness at that
\* level and current_schedule_id at that schedule's id, whatever the master
\* switch and the level recorded before.
C8_ManualAlwaysActuates ==
    [][\A t \in ClockTimes, ok \in BOOLEAN :
         ManualCheckAt(t, ok) =>
            LET active == FindActiveSchedule(schedules, t[1], t[2])
            IN /\ active # None
               /\ script' = <<[value |-> active[1].brightness, origin |-> "manual"]>>
               /\ last_brightness' = Some(active[1].brightness)
               /\ current_schedule_id' = Some(active[1].id)]_vars

\* a manual check has run its command while the master switch is off
C8_Witness ==
    /\ ~enabled
    /\ script # <<>>
    /\ script[1].origin = "manual"
    /\ last_brightness = Some(script[1].value)
    /\ current_schedule_id # None

\* a tick is scheduled: the timer is registered and will fire
Running == timer # None /\ timer[1] # NEVER

C10_TickReschedules ==
    [][/\ (enabled /\ Tick) => timer' = Some(now + CheckInterval)
       /\ \A ok \in BOOLEAN : RunCallbackWith(ok) => timer' = timer]_vars

\* a tick has run after reactor time 0 without ever registering a request
C10_Witness ==
    /\ enabled
    /\ now > 0
    /\ timer = Some(now + CheckInterval)
    /\ last_brightness = None
    /\ pending = <<>>

(***************************************************************************)
(* Identity of the schedules                                               *)
(***************************************************************************)
Ids == {schedules[k].id : k \in DOMAIN schedules}

\* the schedule_N options a configuration defines
DefinedSlots(c) == {i \in Slots : c[i] # None}

\* C11 as stated: with N schedules loaded the ids are exactly 1..N and
\* unique.
C11_IdsOneToN ==
    /\ Ids = 1..Len(schedules)
    /\ Cardinality(Ids) = Len(schedules)

\* C11 as amended: the ids are the numbers of the schedule_N options that
\* are defined, each schedule carrying the times and level of the option of
\* its number; they are unique, and no step changes the id at any position
\* of the table.
C11_IdsAreSlots ==
    /\ [](\E c \in Configs :
            /\ LoadOk(c)
            /\ Ids = DefinedSlots(c)
            /\ Cardinality(Ids) = Len(schedules)
            /\ \A k \in DOMAIN schedules :
                  [schedules[k] EXCEPT !.enabled = TRUE]
                     = MakeSchedule(schedules[k].id, c[schedules[k].id][1]))
    /\ [][/\ DOMAIN schedules' = DOMAIN schedules
          /\ \A k \in DOMAIN schedules : schedules'[k].id = schedules[k].id]_vars

\* only schedule_2 and schedule_4 are defined; one of them has been disabled
\* and a resolution has recorded the other
C11_Witness ==
    /\ Ids = {2, 4}
    /\ Cardinality(EnabledIndexes) = 1
    /\ current_schedule_id # None
    /\ \E k \in EnabledIndexes : current_schedule_id = Some(schedules[k].id)

\* C12: a configuration with an option whose start or end hour is outside
\* 0..23 or whose minute is outside 0..59 does not load: no object exists
\* whose table holds such a schedule, and every schedule of a loaded table
\* starts and ends between minute 0 and minute 1439.
C12_TimesValidated ==
    \A k \in DOMAIN schedules :
       /\ TimesOfDay(schedules[k])
       /\ StartMinutes(schedules[k]) \in 0..1439
       /\ EndMinutes(schedules[k]) \in 0..1439

\* C13: a schedule enable or disable command whose id, one the ID parameter
\* accepts, matches no schedule of the table replies "not found" and leaves
\* the table as it was, however many schedules are enabled.
C13_UnknownIdNotFound ==
    [][\A id \in MinId..MaxId :
         WithId(id) = {} =>
            /\ ScheduleEnableId(id) =>
                  /\ ScheduleEnableReply(schedules, id) = "not found"
                  /\ schedules' = schedules
            /\ ScheduleDisableId(id) =>
                  /\ ScheduleDisableReply(schedules, id) = "not found"
                  /\ schedules' = schedules]_vars

(***************************************************************************)
(* The recorded level and the commands run                                 *)
(***************************************************************************)
\* C14: in every state with no deferred actuation waiting, last_brightness
\* is None exactly when no SET_PIN has been run, and otherwise is the VALUE
\* of the most recent SET_PIN.
C14_LastAppliedIsLastCommand ==
    pending = <<>> => last_brightness = last_command

\* C15 as stated: after every tick that runs with the master switch on and
\* after every manual check, current_schedule_id is the id of the schedule
\* the handler resolved for the time it read.
C15_IdFollowsResolution ==
    [][/\ (enabled /\ TimerDue) =>
            \A t \in ClockTimes, rd \in ReadOutcomes :
               TickAt(t, rd) => current_schedule_id' = StatusActiveId(schedules, t)
       /\ \A t \in ClockTimes, ok \in BOOLEAN :
            ManualCheckAt(t, ok) => current_schedule_id' = StatusActiveId(schedules, t)]_vars

\* C15 as amended: after a tick that registers an actuation and after every
\* manual check, current_schedule_id is the id of the schedule the handler
\* resolved; a tick that registers none leaves current_schedule_id as it was.
C15_IdFollowsActuation ==
    [][/\ (enabled /\ TimerDue) =>
            \A t \in ClockTimes, rd \in ReadOutcomes :
               TickAt(t, rd) =>
                  current_schedule_id' = IF pending' # pending
                                         THEN StatusActiveId(schedules, t)
                                         ELSE current_schedule_id
       /\ \A t \in ClockTimes, ok \in BOOLEAN :
            ManualCheckAt(t, ok) => current_schedule_id' = StatusActiveId(schedules, t)]_vars

\* a manual check recorded the night schedule; a later tick, whatever time
\* it read, registered nothing and left that id and level in place
C15_Witness ==
    /\ enabled
    /\ now > 0
    /\ timer = Some(now + CheckInterval)
    /\ pending = <<>>
    /\ last_command = Some(300)
    /\ last_brightness = Some(300)
    /\ \E k \in DOMAIN schedules :
          /\ current_schedule_id = Some(schedules[k].id)
          /\ schedules[k].brightness = 300
    /\ script = <<>>

(***************************************************************************)
(* The level a tick compares against                                       *)
(***************************************************************************)
\* the pin read yields a level
YieldsLevel(rd) == rd.kind \in {"last_value", "value"} /\ rd.val # None

\* the level the comparison uses according to C16
ClaimedLevel(rd, lb) ==
    IF YieldsLevel(rd) THEN rd.val[1]
    ELSE IF lb # None THEN lb[1] ELSE 0

\* C16: a tick compares the target with the level the pin yields; when the
\* read yields no level (failed lookup, missing attribute, an attribute
\* holding None) it compares with last_brightness if that is known, and with
\* 0 only if it is not: it registers an actuation exactly when the target
\* differs from that level by more than the tolerance.
C16_FallbackChain ==
    [][(enabled /\ TimerDue) =>
       \A t \in ClockTimes, rd \in ReadOutcomes :
         (TickAt(t, rd) /\ rd.kind # "bad") =>
            \E active \in {FindActiveSchedule(schedules, t[1], t[2])} :
               /\ active # None
               /\ pending' # pending <=>
                     Abs(active[1].brightness
                         - ClaimedLevel(rd, last_brightness)) > Tolerance]_vars

C18_TableCommandsFrame ==
    [][(\/ \E id \in CmdIds : ScheduleEnableId(id) \/ ScheduleDisableId(id)
        \/ ListSchedules
        \/ \E t \in ClockTimes : GetStatusAt(t)) =>
          /\ UNCHANGED <<enabled, timer, last_brightness, current_schedule_id, pending>>
          /\ Running' <=> Running
          /\ script' = <<>>
          /\ last_command' = last_command
          /\ registered' = registered]_vars

\* the loop is running with an actuation waiting and a level recorded, and a
\* schedule other than the recorded one has been disabled
C18_Witness ==
    /\ enabled /\ Running
    /\ pending # <<>>
    /\ last_brightness # None
    /\ script = <<>>
    /\ \E k \in DOMAIN schedules \ EnabledIndexes :
          current_schedule_id # Some(schedules[k].id)
    /\ current_schedule_id # None

(***************************************************************************)
(* One tick chain                                                          *)
(***************************************************************************)
\* C19: at most one timer is registered with the reactor, and it is the one
\* self.timer holds; a tick puts the next tick of its chain a full check
\* interval after its event time and registers no timer.
C19_OneTickChain ==
    /\ [](/\ registered <= 1
          /\ registered = 1 <=> timer # None)
    /\ [][(enabled /\ Tick) =>
             /\ registered' = registered
             /\ timer' # None
             /\ timer'[1] - now >= CheckInterval]_vars

\* a chain has ticked and registered an actuation, was stopped, and an
\* enable command has registered the timer again at NOW: one timer
C19_Witness ==
    /\ registered = 1
    /\ enabled
    /\ CommandsAccepted
    /\ timer = Some(NOW)
    /\ pending # <<>>

(***************************************************************************)
(* Stale loop actuation                                                    *)
(***************************************************************************)
\* C20: every SET_PIN command emitted while the master switch is off
\* originates from a manual check; no request that a tick handed to the
\* reactor is emitted after AUTO_LIGHT_DISABLE has turned the switch off.
C20_NoStaleLoopActuation ==
    (~enabled /\ script # <<>>) =>
        \A k \in DOMAIN script : script[k].origin = "manual"

====
